---- MODULE Spec2Model ----
(***************************************************************************)
(* A/B-test sample size calculator (script.js).                            *)
(*                                                                         *)
(* Numbers.  A JavaScript number is modelled as an extended rational       *)
(* [n |-> numerator, d |-> denominator] in lowest terms with d >= 0:       *)
(*   d > 0           the finite value n/d, computed exactly;               *)
(*   n = 1,  d = 0   Infinity;   n = -1, d = 0   -Infinity;                *)
(*   n = 0,  d = 0   NaN.                                                  *)
(* Division by zero, Infinity and NaN follow the IEEE-754 rules the code   *)
(* runs under.  Rounding of finite results to 53 bits is not modelled,     *)
(* and neither is the sign of zero.                                        *)
(*                                                                         *)
(* Math.log and Math.sqrt have irrational values; they, and the            *)
(* polynomial evaluation of normalInverse that consumes them, are computed *)
(* in fixed point with Scale units per 1, every product and quotient       *)
(* rounded to the nearest unit, ties away from zero (a rounding that, like *)
(* IEEE round-to-nearest, commutes with negation).  The z-score that       *)
(* normalInverse returns is rounded to ZScale units per 1.                 *)
(***************************************************************************)
EXTENDS Integers, Sequences, FiniteSets, TLC

VARIABLES
    frame,      \* the activation of calculateSampleSize under study
    quant,      \* the pair of normalInverse evaluations under study
    page        \* the document: form fields and displayed elements

vars == <<frame, quant, page>>

----------------------------------------------------------------------------
(* Extended rational arithmetic (the JavaScript number type)               *)

Abs(i) == IF i < 0 THEN -i ELSE i

Sign(i) == IF i < 0 THEN -1 ELSE IF i > 0 THEN 1 ELSE 0

RECURSIVE GCD(_, _)
GCD(a, b) == IF b = 0 THEN a ELSE GCD(b, a % b)

\* n/d in lowest terms; d = 0 keeps only the sign of n.
Norm(n, d) ==
    IF d = 0 THEN [n |-> Sign(n), d |-> 0]
    ELSE LET g == GCD(Abs(n), Abs(d))
         IN  [n |-> Sign(n) * Sign(d) * (Abs(n) \div g), d |-> Abs(d) \div g]

Whole(i) == [n |-> i, d |-> 1]
Dec(i, d) == Norm(i, d)

NaN == [n |-> 0, d |-> 0]
Infinity == [n |-> 1, d |-> 0]

IsNaN(x) == x.n = 0 /\ x.d = 0
IsFinite(x) == x.d > 0

Neg(x) == [n |-> -x.n, d |-> x.d]

\* x + y
Add(x, y) ==
    IF IsNaN(x) \/ IsNaN(y) THEN NaN
    ELSE IF x.d = 0 THEN (IF y.d = 0 /\ y.n # x.n THEN NaN ELSE x)
    ELSE IF y.d = 0 THEN y
    ELSE LET g == GCD(x.d, y.d)
         IN  Norm(x.n * (y.d \div g) + y.n * (x.d \div g), (x.d \div g) * y.d)

\* x - y
Sub(x, y) == Add(x, Neg(y))

\* x * y
Mul(x, y) ==
    IF IsNaN(x) \/ IsNaN(y) THEN NaN
    ELSE IF x.d = 0 \/ y.d = 0 THEN Norm(Sign(x.n) * Sign(y.n), 0)
    ELSE LET g1 == GCD(Abs(x.n), y.d)
             g2 == GCD(Abs(y.n), x.d)
         IN  Norm((x.n \div g1) * (y.n \div g2), (x.d \div g2) * (y.d \div g1))

\* 1 / x  (1/0 is Infinity, 1/Infinity is 0)
Recip(x) ==
    IF IsNaN(x) THEN NaN
    ELSE IF x.d = 0 THEN Whole(0)
    ELSE IF x.n = 0 THEN Infinity
    ELSE [n |-> Sign(x.n) * x.d, d |-> Abs(x.n)]

\* x / y
Div(x, y) == Mul(x, Recip(y))

\* x < y ; every comparison with NaN is false
Lt(x, y) ==
    /\ ~IsNaN(x)
    /\ ~IsNaN(y)
    /\ IF x.d = 0 /\ y.d = 0 THEN x.n < y.n ELSE x.n * y.d < y.n * x.d

\* x <= y
Le(x, y) == ~IsNaN(x) /\ ~IsNaN(y) /\ ~Lt(y, x)

\* x === y on numbers: NaN equals nothing
NumEq(x, y) == ~IsNaN(x) /\ ~IsNaN(y) /\ x = y

\* Math.abs
MathAbs(x) == [n |-> Abs(x.n), d |-> x.d]

\* Math.pow(x, 2)
Square(x) == Mul(x, x)

\* Math.ceil
MathCeil(x) == IF x.d = 0 THEN x ELSE Whole(-((-x.n) \div x.d))

\* Math.round: floor(x + 1/2)
MathRound(x) == IF x.d = 0 THEN x ELSE Whole((2 * x.n + x.d) \div (2 * x.d))

----------------------------------------------------------------------------
(* Fixed point for the transcendental part                                 *)

\* units per 1 of the fixed-point values, and its square root
Scale == 10^6
Half == 10^3

\* units per 1 of the z-scores handed back to the exact arithmetic
ZScale == 10^3

\* a / b rounded to the nearest integer, ties away from zero (b > 0)
RoundDiv(a, b) == Sign(a) * ((2 * Abs(a) + b) \div (2 * b))

\* round(a * b / Scale) for a, b >= 0, by halves so that no product
\* leaves the integer range
MulMag(a, b) ==
    LET ah == a \div Half
        al == a % Half
        bh == b \div Half
        bl == b % Half
        m  == ah * bl + al * bh
    IN  ah * bh + (m \div Half) + RoundDiv((m % Half) * Half + al * bl, Scale)

\* floor(r * 10^k / b) plus the rounding of what is left, for 0 <= r < b
RECURSIVE Frac(_, _, _)
Frac(r, b, k) ==
    IF k = 0 THEN (IF 2 * r >= b THEN 1 ELSE 0)
    ELSE ((r * 10) \div b) * 10^(k - 1) + Frac((r * 10) % b, b, k - 1)

\* round(a * Scale / b) for a >= 0, b > 0, by long division
DivMag(a, b) == (a \div b) * Scale + Frac(a % b, b, 6)

\* fixed-point product and quotient
FMul(x, y) == Sign(x) * Sign(y) * MulMag(Abs(x), Abs(y))
FDiv(x, y) == Sign(x) * Sign(y) * DivMag(Abs(x), Abs(y))

\* the finite number x as a fixed-point value, and a fixed-point value as
\* a number with ZScale units per 1
ToFixed(x) == Sign(x.n) * DivMag(Abs(x.n), x.d)
FromFixed(f) == Norm(RoundDiv(f, Scale \div ZScale), ZScale)

\* the largest e with 2^e <= m
RECURSIVE Log2Floor(_)
Log2Floor(m) == IF m < 2 THEN 0 ELSE 1 + Log2Floor(m \div 2)

\* t + t^3/3 + t^5/5 + ... + t^(2j-1)/(2j-1), where tk = t^(2k-1)
RECURSIVE AtanhSeries(_, _, _, _)
AtanhSeries(tk, t2, k, j) ==
    IF k > j THEN 0
    ELSE RoundDiv(tk, 2 * k - 1) + AtanhSeries(FMul(tk, t2), t2, k + 1, j)

\* Scale * ln(m) for an integer m >= 1:
\* m = 2^e * f with 1 <= f < 2, ln f = 2 atanh t, t = (f - 1)/(f + 1) < 1/3,
\* and Scale * ln 2 = 693147
LnInt(m) ==
    LET e == Log2Floor(m)
        t == DivMag(m - 2^e, m + 2^e)
    IN  e * 693147 + 2 * AtanhSeries(t, FMul(t, t), 1, 7)

\* Math.log of a finite x > 0, as a fixed-point value
MathLog(x) == LnInt(x.n) - LnInt(x.d)

\* floor of the square root of n >= 0
RECURSIVE ISqrtFrom(_, _)
ISqrtFrom(n, r) == IF (r + 1) * (r + 1) > n THEN r ELSE ISqrtFrom(n, r + 1)

RECURSIVE ISqrt(_)
ISqrt(n) == IF n < 4 THEN ISqrtFrom(n, 0)
            ELSE ISqrtFrom(n, 2 * ISqrt(n \div 4))

\* Newton's iteration s <- (s + f/s) / 2, i times
RECURSIVE Newton(_, _, _)
Newton(f, s, i) ==
    IF i = 0 THEN s ELSE Newton(f, RoundDiv(s + FDiv(f, s), 2), i - 1)

\* Math.sqrt of a fixed-point value f >= 0
MathSqrt(f) == IF f = 0 THEN 0 ELSE Newton(f, (ISqrt(f) + 1) * Half, 3)

----------------------------------------------------------------------------
(* normalInverse: the inverse standard normal CDF                          *)

\* the coefficient tables, in fixed point (Scale units per 1)
CoefA == <<-39696830, 220946098, -275928510, 138357752, -30664798, 2506628>>
CoefB == <<-54476099, 161585837, -155698980, 66801312, -13280682>>
CoefC == <<-7785, -322396, -2400758, -2549733, 4374664, 2938164>>
CoefD == <<7785, 322467, 2445134, 3754409>>

\* the break-points
pLow == Dec(2425, 100000)
pHigh == Sub(Whole(1), pLow)

\* (((c[1] * x + c[2]) * x + c[3]) ... ) * x + c[i]
RECURSIVE Horner(_, _, _)
Horner(c, i, x) == IF i = 1 THEN c[1] ELSE FMul(Horner(c, i - 1, x), x) + c[i]

\* Region with the upper break-point excluded from the central branch
RegionExclusive(p) ==
    IF Lt(p, pLow) THEN "lower"
    ELSE IF Lt(p, pHigh) THEN "central"
    ELSE "upper"

\* which of the three branches of the if-chain p takes
Region(p) ==
    IF Lt(p, pLow) THEN "lower"
    ELSE IF Le(p, pHigh) THEN "central"
    ELSE "upper"

\* the rational expression of the two tail branches, before the sign
TailRational(q) ==
    FDiv(Horner(CoefC, 6, q), FMul(Horner(CoefD, 4, q), q) + Scale)

\* the rational expression of the central branch
CentralRational(q) ==
    LET r == FMul(q, q)
    IN  FDiv(FMul(Horner(CoefA, 6, r), q), FMul(Horner(CoefB, 5, r), r) + Scale)

\* q of a tail branch: Math.sqrt(-2 * Math.log(x))
TailQ(x) == MathSqrt(-2 * MathLog(x))

\* An activation of normalInverse: the argument, pc (the statement to run
\* next), branch (the branch of the if-chain taken, "" before the test), q
\* and the value returned.
NiEnter(p) == [p |-> p, pc |-> "test", branch |-> "", q |-> 0, result |-> NaN]

\* if (p < pLow) ... else if (p <= pHigh) ... else ...
NiTest(a) == [a EXCEPT !.pc = Region(a.p), !.branch = Region(a.p)]

\* lower region: q = Math.sqrt(-2 * Math.log(p)); result = C(q) / D(q)
NiLower(a) ==
    LET q == TailQ(a.p)
    IN  [a EXCEPT !.q = q, !.result = FromFixed(TailRational(q)), !.pc = "done"]

\* central region: q = p - 0.5; r = q * q; result = A(r) * q / B(r)
NiCentral(a) ==
    LET q == ToFixed(Sub(a.p, Dec(1, 2)))
    IN  [a EXCEPT !.q = q, !.result = FromFixed(CentralRational(q)), !.pc = "done"]

\* upper region: q = Math.sqrt(-2 * Math.log(1 - p)); result = -C(q) / D(q)
NiUpper(a) ==
    LET q == TailQ(Sub(Whole(1), a.p))
    IN  [a EXCEPT !.q = q, !.result = FromFixed(-TailRational(q)), !.pc = "done"]

NiStep(a) ==
    CASE a.pc = "test" -> NiTest(a)
      [] a.pc = "lower" -> NiLower(a)
      [] a.pc = "central" -> NiCentral(a)
      [] a.pc = "upper" -> NiUpper(a)

RECURSIVE NiRun(_)
NiRun(a) == IF a.pc = "done" THEN a ELSE NiRun(NiStep(a))

\* normalInverse(p).  Outside 0 < p < 1 the logarithm is -Infinity or NaN
\* and the quotient that follows is NaN.
normalInverse(p) ==
    IF ~(Lt(Whole(0), p) /\ Lt(p, Whole(1))) THEN NaN
    ELSE NiRun(NiEnter(p)).result

----------------------------------------------------------------------------
(* calculateSampleSize, statement by statement                             *)
(*                                                                         *)
(* An activation is a record: the six arguments, the locals (Undef until   *)
(* assigned), pc (the statement to run next), error (the message of the    *)
(* Error thrown, "" while none is), result (the object returned) and       *)
(* calls, the arguments normalInverse has been invoked with so far.        *)

Undef == [undef |-> TRUE]

MsgBaseline == "Baseline conversion rate must be between 0 and 100%"
MsgTestRate == "Resulting test conversion rate is invalid. Try a smaller MDE."
MsgAlpha == "Significance level must be between 0 and 1"
MsgPower == "Statistical power must be between 0 and 1"
MsgSplit == "Split ratio must be between 0 and 1"

Enter(bcr, mde, alpha, power, twoSided, splitRatio) ==
    [pc |-> "p1", bcr |-> bcr, mde |-> mde, alpha |-> alpha, power |-> power,
     twoSided |-> twoSided, splitRatio |-> splitRatio,
     p1 |-> Undef, p2 |-> Undef, zAlpha |-> Undef, zBeta |-> Undef,
     delta |-> Undef, nEqual |-> Undef, k |-> Undef,
     controlSize |-> Undef, testSize |-> Undef, totalSize |-> Undef,
     error |-> "", result |-> Undef, calls |-> <<>>]

\* throw new Error(msg): control passes to the catch clause
Throw(f, msg) == [f EXCEPT !.error = msg, !.pc = "catch"]

\* const p1 = bcr / 100;
SetP1(f) == [f EXCEPT !.p1 = Div(f.bcr, Whole(100)), !.pc = "p2"]

\* const p2 = p1 * (1 + mde / 100);
SetP2(f) ==
    [f EXCEPT !.p2 = Mul(f.p1, Add(Whole(1), Div(f.mde, Whole(100)))),
              !.pc = "checkP1"]

\* CheckP1 with the significance level validated ahead of the baseline
CheckP1AlphaFirst(f) ==
    IF Le(f.alpha, Whole(0)) \/ Le(Whole(1), f.alpha) THEN Throw(f, MsgAlpha)
    ELSE IF Le(f.p1, Whole(0)) \/ Le(Whole(1), f.p1) THEN Throw(f, MsgBaseline)
    ELSE [f EXCEPT !.pc = "checkP2"]

\* if (p1 <= 0 || p1 >= 1) throw ...
CheckP1(f) ==
    IF Le(f.p1, Whole(0)) \/ Le(Whole(1), f.p1) THEN Throw(f, MsgBaseline)
    ELSE [f EXCEPT !.pc = "checkP2"]

\* if (p2 <= 0 || p2 > 1) throw ...
CheckP2(f) ==
    IF Le(f.p2, Whole(0)) \/ Lt(Whole(1), f.p2) THEN Throw(f, MsgTestRate)
    ELSE [f EXCEPT !.pc = "checkAlpha"]

\* CheckAlpha throwing the message of the check pasted from
CheckAlphaWrongMessage(f) ==
    IF Le(f.alpha, Whole(0)) \/ Le(Whole(1), f.alpha) THEN Throw(f, MsgPower)
    ELSE [f EXCEPT !.pc = "checkPower"]

\* CheckAlpha without the upper bound
CheckAlphaNoUpperBound(f) ==
    IF Le(f.alpha, Whole(0)) THEN Throw(f, MsgAlpha)
    ELSE [f EXCEPT !.pc = "checkPower"]

\* if (alpha <= 0 || alpha >= 1) throw ...
CheckAlpha(f) ==
    IF Le(f.alpha, Whole(0)) \/ Le(Whole(1), f.alpha) THEN Throw(f, MsgAlpha)
    ELSE [f EXCEPT !.pc = "checkPower"]

\* if (power <= 0 || power >= 1) throw ...
CheckPower(f) ==
    IF Le(f.power, Whole(0)) \/ Le(Whole(1), f.power) THEN Throw(f, MsgPower)
    ELSE [f EXCEPT !.pc = "checkSplit"]

\* if (splitRatio <= 0 || splitRatio >= 1) throw ...
CheckSplit(f) ==
    IF Le(f.splitRatio, Whole(0)) \/ Le(Whole(1), f.splitRatio)
    THEN Throw(f, MsgSplit)
    ELSE [f EXCEPT !.pc = "zAlpha"]

\* the argument of the first normalInverse call
ZAlphaArg(f) ==
    IF f.twoSided THEN Sub(Whole(1), Div(f.alpha, Whole(2)))
    ELSE Sub(Whole(1), f.alpha)

\* SetZAlpha ignoring twoSided
SetZAlphaAlwaysTwoSided(f) ==
    [f EXCEPT !.zAlpha = normalInverse(Sub(Whole(1), Div(f.alpha, Whole(2)))),
              !.calls = Append(@, Sub(Whole(1), Div(f.alpha, Whole(2)))),
              !.pc = "zBeta"]

\* const zAlpha = twoSided ? normalInverse(1 - alpha / 2) : normalInverse(1 - alpha);
SetZAlpha(f) ==
    [f EXCEPT !.zAlpha = normalInverse(ZAlphaArg(f)),
              !.calls = Append(@, ZAlphaArg(f)),
              !.pc = "zBeta"]

\* const zBeta = normalInverse(power);
SetZBeta(f) ==
    [f EXCEPT !.zBeta = normalInverse(f.power),
              !.calls = Append(@, f.power),
              !.pc = "delta"]

\* const delta = Math.abs(p2 - p1);
SetDelta(f) == [f EXCEPT !.delta = MathAbs(Sub(f.p2, f.p1)), !.pc = "nEqual"]

\* SetNEqual with the pooled variance pbar * (1 - pbar), pbar = (p1 + p2) / 2
\* (the variance is divided by delta^2 first, which keeps the exact
\* intermediate values small and leaves the value unchanged)
SetNEqualPooled(f) ==
    LET pbar == Div(Add(f.p1, f.p2), Whole(2))
    IN  [f EXCEPT !.nEqual =
                      Mul(Mul(Whole(2), Square(Add(f.zAlpha, f.zBeta))),
                          Div(Mul(pbar, Sub(Whole(1), pbar)), Square(f.delta))),
                  !.pc = "k"]

\* const nEqual = 2 * Math.pow(zAlpha + zBeta, 2) * p1 * (1 - p1) / Math.pow(delta, 2);
SetNEqual(f) ==
    [f EXCEPT !.nEqual =
                  Div(Mul(Mul(Mul(Whole(2), Square(Add(f.zAlpha, f.zBeta))), f.p1),
                          Sub(Whole(1), f.p1)),
                      Square(f.delta)),
              !.pc = "k"]

\* const k = splitRatio / (1 - splitRatio);
SetK(f) ==
    [f EXCEPT !.k = Div(f.splitRatio, Sub(Whole(1), f.splitRatio)),
              !.pc = "controlSize"]

\* SetControlSize rounding down instead of up
SetControlSizeFloored(f) ==
    [f EXCEPT !.controlSize =
                  Neg(MathCeil(Neg(Div(Mul(f.nEqual, Add(Whole(1), Div(Whole(1), f.k))),
                                       Whole(2))))),
              !.pc = "testSize"]

\* const controlSize = Math.ceil(nEqual * (1 + 1 / k) / 2);
SetControlSize(f) ==
    [f EXCEPT !.controlSize =
                  MathCeil(Div(Mul(f.nEqual, Add(Whole(1), Div(Whole(1), f.k))),
                               Whole(2))),
              !.pc = "testSize"]

\* SetTestSize rounding to the nearest integer instead of up
SetTestSizeRounded(f) ==
    [f EXCEPT !.testSize = MathRound(Mul(f.controlSize, f.k)), !.pc = "totalSize"]

\* const testSize = Math.ceil(controlSize * k);
SetTestSize(f) ==
    [f EXCEPT !.testSize = MathCeil(Mul(f.controlSize, f.k)), !.pc = "totalSize"]

\* const totalSize = controlSize + testSize;
SetTotalSize(f) ==
    [f EXCEPT !.totalSize = Add(f.controlSize, f.testSize), !.pc = "return"]

\* return {controlSize, testSize, totalSize};
Return(f) ==
    [f EXCEPT !.result = [controlSize |-> f.controlSize,
                          testSize |-> f.testSize,
                          totalSize |-> f.totalSize],
              !.pc = "returned"]

\* catch (error) { throw error; }
Rethrow(f) == [f EXCEPT !.pc = "thrown"]

Finished(f) == f.pc \in {"returned", "thrown"}

\* the statement at f.pc
Step(f) ==
    CASE f.pc = "p1" -> SetP1(f)
      [] f.pc = "p2" -> SetP2(f)
      [] f.pc = "checkP1" -> CheckP1(f)
      [] f.pc = "checkP2" -> CheckP2(f)
      [] f.pc = "checkAlpha" -> CheckAlpha(f)
      [] f.pc = "checkPower" -> CheckPower(f)
      [] f.pc = "checkSplit" -> CheckSplit(f)
      [] f.pc = "zAlpha" -> SetZAlpha(f)
      [] f.pc = "zBeta" -> SetZBeta(f)
      [] f.pc = "delta" -> SetDelta(f)
      [] f.pc = "nEqual" -> SetNEqual(f)
      [] f.pc = "k" -> SetK(f)
      [] f.pc = "controlSize" -> SetControlSize(f)
      [] f.pc = "testSize" -> SetTestSize(f)
      [] f.pc = "totalSize" -> SetTotalSize(f)
      [] f.pc = "return" -> Return(f)
      [] f.pc = "catch" -> Rethrow(f)

\* a whole call, from entry to return or throw
RECURSIVE Run(_)
Run(f) == IF Finished(f) THEN f ELSE Run(Step(f))

calculateSampleSize(bcr, mde, alpha, power, twoSided, splitRatio) ==
    Run(Enter(bcr, mde, alpha, power, twoSided, splitRatio))

----------------------------------------------------------------------------
(* Spec: one call of calculateSampleSize on each tuple of arguments        *)

BcrInputs == {Whole(i) : i \in {0, 20, 50, 80, 150}}
MdeInputs == {Whole(i) : i \in {-100, -50, 0, 100, 300}}
AlphaInputs == {Dec(i, 100) : i \in {0, 1, 5, 50, 100, 150}}
PowerInputs == {Dec(i, 100) : i \in {0, 50, 80, 99, 100}}
SplitInputs == {Dec(i, 10) : i \in {0, 2, 5, 8, 10}}

Idle == [idle |-> TRUE]

Init ==
    /\ \E bcr \in BcrInputs, mde \in MdeInputs, alpha \in AlphaInputs,
          power \in PowerInputs, twoSided \in BOOLEAN, splitRatio \in SplitInputs :
           frame = Enter(bcr, mde, alpha, power, twoSided, splitRatio)
    /\ quant = Idle
    /\ page = Idle

At(label) == frame.pc = label /\ UNCHANGED <<quant, page>>

ComputeP1 == At("p1") /\ frame' = SetP1(frame)
ComputeP2 == At("p2") /\ frame' = SetP2(frame)
ValidateP1 == At("checkP1") /\ frame' = CheckP1(frame)
ValidateP2 == At("checkP2") /\ frame' = CheckP2(frame)
ValidateAlpha == At("checkAlpha") /\ frame' = CheckAlpha(frame)
ValidatePower == At("checkPower") /\ frame' = CheckPower(frame)
ValidateSplit == At("checkSplit") /\ frame' = CheckSplit(frame)
ComputeZAlpha == At("zAlpha") /\ frame' = SetZAlpha(frame)
ComputeZBeta == At("zBeta") /\ frame' = SetZBeta(frame)
ComputeDelta == At("delta") /\ frame' = SetDelta(frame)
ComputeNEqual == At("nEqual") /\ frame' = SetNEqual(frame)
ComputeK == At("k") /\ frame' = SetK(frame)
ComputeControlSize == At("controlSize") /\ frame' = SetControlSize(frame)
ComputeTestSize == At("testSize") /\ frame' = SetTestSize(frame)
ComputeTotalSize == At("totalSize") /\ frame' = SetTotalSize(frame)
ReturnResult == At("return") /\ frame' = Return(frame)
CatchRethrow == At("catch") /\ frame' = Rethrow(frame)

Next ==
    \/ ComputeP1
    \/ ComputeP2
    \/ ValidateP1
    \/ ValidateP2
    \/ ValidateAlpha
    \/ ValidatePower
    \/ ValidateSplit
    \/ ComputeZAlpha
    \/ ComputeZBeta
    \/ ComputeDelta
    \/ ComputeNEqual
    \/ ComputeK
    \/ ComputeControlSize
    \/ ComputeTestSize
    \/ ComputeTotalSize
    \/ ReturnResult
    \/ CatchRethrow

Spec == Init /\ [][Next]_vars

----------------------------------------------------------------------------
(* SpecQuantile: normalInverse at p and at 1 - p, for p on a grid          *)

\* the grid divides (0, 1) into GridSize equal steps
GridSize == 100

\* probabilities at and next to the break-points, and deep in the tails
EdgeInputs ==
    {pLow, pHigh} \cup
    {Dec(i, 100000) : i \in {1, 100, 2424, 2426, 97574, 97576, 99900, 99999}}

QuantileInputs == {Dec(i, GridSize) : i \in 1 .. (GridSize - 1)} \cup EdgeInputs

QInit ==
    /\ \E p \in QuantileInputs :
           quant = [at |-> NiEnter(p), mirror |-> NiEnter(Sub(Whole(1), p))]
    /\ frame = Idle
    /\ page = Idle

QAt(side, label) == quant[side].pc = label /\ UNCHANGED <<frame, page>>

Sides == {"at", "mirror"}

TestBreakPoints ==
    \E s \in Sides : QAt(s, "test") /\ quant' = [quant EXCEPT ![s] = NiTest(@)]
LowerRegion ==
    \E s \in Sides : QAt(s, "lower") /\ quant' = [quant EXCEPT ![s] = NiLower(@)]
CentralRegion ==
    \E s \in Sides : QAt(s, "central") /\ quant' = [quant EXCEPT ![s] = NiCentral(@)]
UpperRegion ==
    \E s \in Sides : QAt(s, "upper") /\ quant' = [quant EXCEPT ![s] = NiUpper(@)]

QNext ==
    \/ TestBreakPoints
    \/ LowerRegion
    \/ CentralRegion
    \/ UpperRegion

SpecQuantile == QInit /\ [][QNext]_vars

----------------------------------------------------------------------------
(* The page: form fields, displayed elements and the event handlers        *)
(*                                                                         *)
(* A text is a sequence of one-character strings.  The character U+221E    *)
(* (the infinity sign) is written "U+221E".                                *)

DigitChars == {"0", "1", "2", "3", "4", "5", "6", "7", "8", "9"}

DigitValue(c) ==
    ("0" :> 0 @@ "1" :> 1 @@ "2" :> 2 @@ "3" :> 3 @@ "4" :> 4 @@
     "5" :> 5 @@ "6" :> 6 @@ "7" :> 7 @@ "8" :> 8 @@ "9" :> 9)[c]

DigitChar(i) == <<"0", "1", "2", "3", "4", "5", "6", "7", "8", "9">>[i + 1]

\* the first position from i on that holds no digit
RECURSIVE DigitsEnd(_, _)
DigitsEnd(s, i) ==
    IF i <= Len(s) /\ s[i] \in DigitChars THEN DigitsEnd(s, i + 1) ELSE i

\* the value of the digits s[i], ..., s[j - 1]
RECURSIVE NatOf(_, _, _)
NatOf(s, i, j) ==
    IF j <= i THEN 0 ELSE NatOf(s, i, j - 1) * 10 + DigitValue(s[j - 1])

\* the longest prefix that is a decimal literal: [+-] digits [. digits];
\* white space, exponents and the literal Infinity are not modelled
Literal(s) ==
    LET signed  == Len(s) >= 1 /\ s[1] \in {"-", "+"}
        start   == IF signed THEN 2 ELSE 1
        intEnd  == DigitsEnd(s, start)
        hasDot  == intEnd <= Len(s) /\ s[intEnd] = "."
        fracEnd == IF hasDot THEN DigitsEnd(s, intEnd + 1) ELSE intEnd
        fracLen == IF hasDot THEN fracEnd - intEnd - 1 ELSE 0
        mag     == NatOf(s, start, intEnd) * 10^fracLen + NatOf(s, intEnd + 1, fracEnd)
    IN  [digits |-> (intEnd - start) + fracLen,
         end    |-> fracEnd,
         value  |-> Norm((IF signed /\ s[1] = "-" THEN -1 ELSE 1) * mag, 10^fracLen)]

\* parseFloat(s): the value of the longest literal prefix, NaN without one
ParseFloat(s) == IF Literal(s).digits = 0 THEN NaN ELSE Literal(s).value

\* Number(s), the conversion applied by  slider.value * 100 : the empty
\* string is 0, and a string that is not a literal as a whole is NaN
ToNumber(s) ==
    IF s = <<>> THEN Whole(0)
    ELSE IF Literal(s).digits = 0 \/ Literal(s).end <= Len(s) THEN NaN
    ELSE Literal(s).value

\* the decimal digits of n >= 0
RECURSIVE DigitsOf(_)
DigitsOf(n) ==
    IF n < 10 THEN <<DigitChar(n)>> ELSE DigitsOf(n \div 10) \o <<DigitChar(n % 10)>>

\* the digits of n >= 0 in groups of three separated by commas
RECURSIVE Grouped(_)
Grouped(n) ==
    IF n < 1000 THEN DigitsOf(n)
    ELSE Grouped(n \div 1000) \o <<",">>
         \o <<DigitChar((n % 1000) \div 100), DigitChar((n % 100) \div 10),
              DigitChar(n % 10)>>

\* String(x) of an integer, Infinity or NaN, as a template literal does it
NumberToString(x) ==
    IF IsNaN(x) THEN <<"N", "a", "N">>
    ELSE IF x.d = 0 THEN (IF x.n < 0 THEN <<"-">> ELSE <<>>)
                         \o <<"I", "n", "f", "i", "n", "i", "t", "y">>
    ELSE (IF x.n < 0 THEN <<"-">> ELSE <<>>) \o DigitsOf(Abs(x.n))

\* formatNumber(num): num.toLocaleString('en-US') of an integer, Infinity
\* or NaN (calculateSampleSize returns nothing else)
formatNumber(x) ==
    IF IsNaN(x) THEN <<"N", "a", "N">>
    ELSE IF x.d = 0 THEN (IF x.n < 0 THEN <<"-">> ELSE <<>>) \o <<"U+221E">>
    ELSE (IF x.n < 0 THEN <<"-">> ELSE <<>>) \o Grouped(Abs(x.n))

MsgFill == "Please fill in all fields with valid numbers"

Dash == <<"-">>

\* getFormValues()
getFormValues(pg) ==
    [bcr |-> ParseFloat(pg.bcr),
     mde |-> ParseFloat(pg.mde),
     alpha |-> ParseFloat(pg.alpha),
     power |-> ParseFloat(pg.power),
     twoSided |-> (pg.testType = "true"),
     splitRatio |-> ParseFloat(pg.splitRatio)]

\* Object.values(values).some(v => isNaN(v) && typeof v !== 'boolean')
SomeNaN(v) ==
    IsNaN(v.bcr) \/ IsNaN(v.mde) \/ IsNaN(v.alpha) \/ IsNaN(v.power)
    \/ IsNaN(v.splitRatio)

\* the catch clause of updateResults
ShowError(pg, message) ==
    [pg EXCEPT !.errorMessage = message, !.errorShow = TRUE,
               !.totalSampleSize = Dash, !.controlSize = Dash, !.testSize = Dash]

\* the end of the try block of updateResults
ShowResults(pg, results) ==
    [pg EXCEPT !.totalSampleSize = formatNumber(results.totalSize),
               !.controlSize = formatNumber(results.controlSize),
               !.testSize = formatNumber(results.testSize),
               !.errorShow = FALSE, !.errorMessage = ""]

\* updateResults()
updateResults(pg) ==
    LET values == getFormValues(pg)
        call   == calculateSampleSize(values.bcr, values.mde, values.alpha,
                                      values.power, values.twoSided,
                                      values.splitRatio)
    IN  IF SomeNaN(values) THEN ShowError(pg, MsgFill)
        ELSE IF call.pc = "thrown" THEN ShowError(pg, call.error)
        ELSE ShowResults(pg, call.result)

\* updateSliderValue()
updateSliderValue(pg) ==
    [pg EXCEPT !.splitRatioValue =
                   NumberToString(MathRound(Mul(ToNumber(pg.splitRatio), Whole(100))))
                   \o <<"%">>]

ToggleButtons == {"twoSidedBtn", "oneSidedBtn"}

\* event.target.dataset.value of a toggle button
DatasetValue(btn) == IF btn = "twoSidedBtn" THEN "true" ELSE "false"

\* handleToggleClick without the recalculation
handleToggleClickNoUpdate(pg, btn, onToggleBtn) ==
    IF onToggleBtn
    THEN [pg EXCEPT !.active = btn, !.testType = DatasetValue(btn)]
    ELSE pg

\* handleToggleClick(event), the click landing on the button itself
\* (an element of class toggle-btn) or on something inside it
handleToggleClick(pg, btn, onToggleBtn) ==
    IF onToggleBtn
    THEN updateResults([pg EXCEPT !.active = btn, !.testType = DatasetValue(btn)])
    ELSE pg

\* the 'input' listener of field id, the field now holding text
onInput(pg, id, text) ==
    LET changed == [pg EXCEPT ![id] = text]
    IN  updateResults(IF id = "splitRatio" THEN updateSliderValue(changed)
                      ELSE changed)

\* the DOMContentLoaded listener
onDOMContentLoaded(pg) ==
    updateResults(updateSliderValue([pg EXCEPT !.loaded = TRUE]))

----------------------------------------------------------------------------
(* SpecPage: the page under input events and toggle clicks                 *)

InputIds == {"bcr", "mde", "alpha", "power", "splitRatio"}

\* what the fields may hold
FieldTexts ==
    [bcr |-> {<<"5">>, <<"1", "5", "0">>, <<>>},
     mde |-> {<<"3", "0">>, <<"0">>, <<"-", "5">>, <<"x">>},
     alpha |-> {<<"0", ".", "0", "5">>, <<"0", ".", "5">>, <<"1", ".", "5">>},
     power |-> {<<"0", ".", "8">>, <<".", "5">>, <<"2">>},
     splitRatio |-> {<<"0", ".", "5">>, <<"0", ".", "8">>, <<"1">>}]

\* the page as parsed, before any script has run: the fields hold the
\* example values of the README, the hidden testType input either value
PInit ==
    /\ \E testType \in {"true", "false"} :
           page = [loaded |-> FALSE,
                   bcr |-> <<"5">>, mde |-> <<"3", "0">>,
                   alpha |-> <<"0", ".", "0", "5">>, power |-> <<"0", ".", "8">>,
                   splitRatio |-> <<"0", ".", "5">>, testType |-> testType,
                   active |-> "", splitRatioValue |-> <<>>,
                   errorMessage |-> "", errorShow |-> FALSE,
                   totalSampleSize |-> Dash, controlSize |-> Dash,
                   testSize |-> Dash]
    /\ frame = Idle
    /\ quant = Idle

DOMContentLoaded ==
    /\ ~page.loaded
    /\ page' = onDOMContentLoaded(page)
    /\ UNCHANGED <<frame, quant>>

InputEvent ==
    /\ page.loaded
    /\ \E id \in InputIds : \E text \in FieldTexts[id] :
           /\ text # page[id]
           /\ page' = onInput(page, id, text)
    /\ UNCHANGED <<frame, quant>>

ToggleClick ==
    /\ page.loaded
    /\ \E btn \in ToggleButtons, onToggleBtn \in BOOLEAN :
           page' = handleToggleClick(page, btn, onToggleBtn)
    /\ UNCHANGED <<frame, quant>>

PNext ==
    \/ DOMContentLoaded
    \/ InputEvent
    \/ ToggleClick

SpecPage == PInit /\ [][PNext]_vars

----------------------------------------------------------------------------
(* Properties of calculateSampleSize (checked under Spec)                  *)

\* 0 < x < 1
InOpenUnit(x) == Lt(Whole(0), x) /\ Lt(x, Whole(1))

\* the two proportions as the contract defines them from the arguments
P1Of(f) == Div(f.bcr, Whole(100))
P2Of(f) == Mul(P1Of(f), Add(Whole(1), Div(f.mde, Whole(100))))

P1Ok(f) == InOpenUnit(P1Of(f))
P2Ok(f) == Lt(Whole(0), P2Of(f)) /\ Le(P2Of(f), Whole(1))
AlphaOk(f) == InOpenUnit(f.alpha)
PowerOk(f) == InOpenUnit(f.power)
SplitOk(f) == InOpenUnit(f.splitRatio)

AllValid(f) == P1Ok(f) /\ P2Ok(f) /\ AlphaOk(f) /\ PowerOk(f) /\ SplitOk(f)

\* the z-scores, delta and k as the contract defines them from the arguments
ZAlphaOf(f) ==
    IF f.twoSided THEN normalInverse(Sub(Whole(1), Div(f.alpha, Whole(2))))
    ELSE normalInverse(Sub(Whole(1), f.alpha))
ZBetaOf(f) == normalInverse(f.power)
DeltaOf(f) == MathAbs(Sub(P2Of(f), P1Of(f)))
KOf(f) == Div(f.splitRatio, Sub(Whole(1), f.splitRatio))

\* 2 * (zAlpha + zBeta)^2 * v * (1 - v) / delta^2
NWithVariance(f, v) ==
    Mul(Mul(Whole(2), Square(Add(ZAlphaOf(f), ZBetaOf(f)))),
        Div(Mul(v, Sub(Whole(1), v)), Square(DeltaOf(f))))

\* the error of the first violated condition in the contract's order
FirstViolation(f) ==
    IF ~P1Ok(f) THEN MsgBaseline
    ELSE IF ~P2Ok(f) THEN MsgTestRate
    ELSE IF ~AlphaOk(f) THEN MsgAlpha
    ELSE IF ~PowerOk(f) THEN MsgPower
    ELSE IF ~SplitOk(f) THEN MsgSplit
    ELSE ""

\* C1: a finished call has thrown exactly the error of the first violated
\* condition in the order p1, p2, alpha, power, splitRatio, or, when all five
\* hold, has returned a result; never is there a result together with an error.
C1_FirstViolationWins ==
    /\ ~(frame.error # "" /\ frame.result # Undef)
    /\ Finished(frame) =>
        /\ frame.error = FirstViolation(frame)
        /\ (frame.pc = "returned") = AllValid(frame)
        /\ (frame.pc = "returned") = (frame.result # Undef)
        /\ (frame.pc = "thrown") = (frame.error # "")

\* C1 witness: the test-rate error thrown while alpha, power and splitRatio
\* are out of range too
C1_Witness ==
    /\ frame.pc = "thrown"
    /\ frame.error = MsgTestRate
    /\ ~AlphaOk(frame) /\ ~PowerOk(frame) /\ ~SplitOk(frame)

\* C2 as stated, on the arguments with a non-zero effect (mde = 0 is the
\* subject of C3): every returned result has
\* totalSize == controlSize + testSize and both sizes >= 1
C2_SizesPositive ==
    (frame.pc = "returned" /\ DeltaOf(frame) # Whole(0)) =>
        /\ NumEq(frame.result.totalSize,
                 Add(frame.result.controlSize, frame.result.testSize))
        /\ Le(Whole(1), frame.result.controlSize)
        /\ Le(Whole(1), frame.result.testSize)

\* C2 amended: every returned result with nEqual > 0 has
\* totalSize == controlSize + testSize and both sizes >= 1
C2_SizesPositiveWhenNEqualPositive ==
    (frame.pc = "returned" /\ Lt(Whole(0), frame.nEqual)) =>
        /\ NumEq(frame.result.totalSize,
                 Add(frame.result.controlSize, frame.result.testSize))
        /\ Le(Whole(1), frame.result.controlSize)
        /\ Le(Whole(1), frame.result.testSize)

\* C2 witness: a returned result whose nEqual lies strictly between 0 and 1
C2_Witness ==
    /\ frame.pc = "returned"
    /\ Lt(Whole(0), frame.nEqual)
    /\ Lt(frame.nEqual, Whole(1))

\* C3: with mde = 0 and otherwise valid arguments the call ends in an error
C3_ZeroEffectIsAnError ==
    (Finished(frame) /\ AllValid(frame) /\ frame.mde = Whole(0)) =>
        (frame.pc = "thrown" /\ frame.error # "")

\* C4 as stated: alpha outside (0,1) fails with the significance-level error
\* whatever the other arguments are
C4_AlphaErrorRegardless ==
    (Finished(frame) /\ ~AlphaOk(frame)) =>
        (frame.pc = "thrown" /\ frame.error = MsgAlpha)

\* C4 amended: alpha outside (0,1) fails with the significance-level error
\* whatever power, twoSided and splitRatio are, provided 0 < p1 < 1 and
\* 0 < p2 <= 1
C4_AlphaErrorAfterRates ==
    (Finished(frame) /\ ~AlphaOk(frame) /\ P1Ok(frame) /\ P2Ok(frame)) =>
        (frame.pc = "thrown" /\ frame.error = MsgAlpha)

\* C4 witness: alpha = 1.5 rejected while power and splitRatio are out of
\* range as well
C4_Witness ==
    /\ frame.pc = "thrown"
    /\ frame.error = MsgAlpha
    /\ frame.alpha = Dec(3, 2)
    /\ ~PowerOk(frame) /\ ~SplitOk(frame)

----------------------------------------------------------------------------
(* Properties of normalInverse (checked under SpecQuantile)                *)

----------------------------------------------------------------------------
(* Properties of the page (checked under SpecPage)                         *)

\* the form values are numbers on which calculateSampleSize returns
FormValid(pg) ==
    LET v == getFormValues(pg)
    IN  /\ ~SomeNaN(v)
        /\ calculateSampleSize(v.bcr, v.mde, v.alpha, v.power, v.twoSided,
                               v.splitRatio).pc = "returned"

\* the error message is shown and the three fields display '-'
ErrorDisplayed(pg) ==
    /\ pg.errorShow
    /\ pg.errorMessage # ""
    /\ pg.totalSampleSize = Dash
    /\ pg.controlSize = Dash
    /\ pg.testSize = Dash

\* the error message is empty and hidden and the three fields display the
\* result of calculateSampleSize for the form values
ResultDisplayed(pg) ==
    LET v == getFormValues(pg)
        r == calculateSampleSize(v.bcr, v.mde, v.alpha, v.power, v.twoSided,
                                 v.splitRatio).result
    IN  /\ ~pg.errorShow
        /\ pg.errorMessage = ""
        /\ pg.totalSampleSize = formatNumber(r.totalSize)
        /\ pg.controlSize = formatNumber(r.controlSize)
        /\ pg.testSize = formatNumber(r.testSize)

DisplayFollowsForm ==
    page.loaded =>
        IF FormValid(page) THEN ResultDisplayed(page) ELSE ErrorDisplayed(page)

ErrorIsLeft ==
    (page.loaded /\ page.errorShow /\ FormValid(page')) => ~page'.errorShow

\* C10: once a handler has returned, the display is the error state (message
\* shown, three dashes) when the form values are invalid and the result of
\* calculateSampleSize for the form values, with the message empty and
\* hidden, when they are valid; and an event that ends with valid form values
\* leaves the error state
C10_DisplayFollowsForm == [](DisplayFollowsForm) /\ [][ErrorIsLeft]_vars

\* C10 witness: after a click on the one-sided button a result with a
\* thousands separator is displayed and no error is shown
C10_Witness ==
    /\ page.loaded
    /\ page.active = "oneSidedBtn"
    /\ page.testType = "false"
    /\ ~page.errorShow
    /\ Len(page.totalSampleSize) > 4
    /\ page.totalSampleSize[Len(page.totalSampleSize) - 3] = ","

====
